---- MODULE Spec2Model ----
(***************************************************************************)
(* Model of the stock investment diary: ticker resolution                  *)
(* (src/src/stock_engine.py), news normalisation and quote fetching        *)
(* (src/src/stock_engine.py), insight generation (src/src/ai_analyst.py),  *)
(* record publishing (src/src/notion_handler.py) and the session           *)
(* orchestration (src/app.py).                                             *)
(*                                                                         *)
(* Text is a sequence of characters over a small alphabet; Python's None   *)
(* is the record None.  Every call of an external service (language model, *)
(* market-data provider, document database) is an outcome drawn from a     *)
(* small set that includes the call raising.                               *)
(***************************************************************************)
EXTENDS Integers, Sequences, FiniteSets, TLC

VARIABLES
    resolveCall,   \* the last call of resolve_ticker_with_ai: arguments, result
    newsCall,      \* the last call of StockProvider._normalize_news
    fetchCall,     \* the last call of StockProvider.get_stock_data
    insightCall,   \* the last call of generate_insight
    env,           \* NOTION_TOKEN, NOTION_DB_ID, GOOGLE_API_KEY, read at start-up
    session,       \* st.session_state: stock_data, ai_insight, resolved_info
    notion,        \* a NotionManager some caller constructed (None: none yet)
    event,         \* the last operation of the session or of the publisher
    written        \* per session field, the submits since it was last assigned

components == <<resolveCall, newsCall, fetchCall, insightCall>>
application == <<env, session, notion, event, written>>
vars == <<resolveCall, newsCall, fetchCall, insightCall, env, session, notion,
         event, written>>

\* ------------------------------------------------------------------ bounds

MaxInputLen == 2
MaxRespLen == 3
MaxNews == 2
MaxBars == 2
MaxPrice == 2
MaxErrWords == 2
MaxAge == 2

\* ------------------------------------------------------------------ values

\* None where a record is expected, and None where a text is expected (a text
\* no alphabet can spell, so that it compares with texts).
None == [kind |-> "None"]
NoneText == <<"<None>">>
Idle == [op |-> "idle"]

\* No configuration in the process environment: os.getenv gives None.
NoEnv == [NOTION_TOKEN |-> NoneText, NOTION_DB_ID |-> NoneText, GOOGLE_API_KEY |-> NoneText]

\* st.session_state as main() initialises it.
NewSession == [stock_data |-> None, ai_insight |-> None, resolved_info |-> None]

\* Every field of the session was assigned by main() and no submit came since.
NewlyWritten == [stock_data |-> 0, ai_insight |-> 0, resolved_info |-> 0]

\* Python truthiness of an optional text value (None and "" are falsy).
Truthy(v) == v # NoneText /\ v # <<>>

SeqsUpTo(S, n) == UNION {[1..k -> S] : k \in 0..n}

\* ------------------------------------------------------------------ text

\* "ko" stands for one Hangul syllable: alphanumeric for str.isalnum, not ASCII.
InputChars == {"a", "A", "1", ".", "-", " ", "ko"}
RespChars == {"a", "A", " ", "|"}

AlnumChars == {"a", "A", "1", "ko"}

upper_char(c) == IF c = "a" THEN "A" ELSE c

\* str.upper
upper(s) == [i \in 1..Len(s) |-> upper_char(s[i])]

RECURSIVE lstrip(_)
lstrip(s) == IF s # <<>> /\ Head(s) = " " THEN lstrip(Tail(s)) ELSE s

RECURSIVE rstrip(_)
rstrip(s) ==
    IF s # <<>> /\ s[Len(s)] = " " THEN rstrip(SubSeq(s, 1, Len(s) - 1)) ELSE s

\* str.strip
strip(s) == rstrip(lstrip(s))

\* str.replace(ch, "")
remove(s, ch) == SelectSeq(s, LAMBDA c : c # ch)

\* str.isalnum: non-empty and every character alphanumeric
isalnum(s) == s # <<>> /\ \A i \in 1..Len(s) : s[i] \in AlnumChars

\* str.isascii
isascii(s) == \A i \in 1..Len(s) : s[i] # "ko"

\* "|" in s
has_pipe(s) == \E i \in 1..Len(s) : s[i] = "|"

\* the index of the first "|" of s (s holds one)
first_pipe(s) == CHOOSE i \in 1..Len(s) : s[i] = "|" /\ \A j \in 1..(i - 1) : s[j] # "|"

\* str.split("|", 1)
split_once(s) ==
    IF has_pipe(s)
    THEN <<SubSeq(s, 1, first_pipe(s) - 1), SubSeq(s, first_pipe(s) + 1, Len(s))>>
    ELSE <<s>>

\* ------------------------------------------------------------------ resolver

UserInputs == SeqsUpTo(InputChars, MaxInputLen)
ApiKeys == {NoneText, <<>>, <<"k">>}

\* What client.models.generate_content does: raise, return no response object,
\* return a response whose text is None, or return a response with a text.
LlmTexts == SeqsUpTo(RespChars, MaxRespLen)
LlmOutcomes ==
    {[kind |-> "raise"], [kind |-> "no_response"], [kind |-> "no_text"]}
        \cup {[kind |-> "text", text |-> t] : t \in LlmTexts}

is_ticker_format(cleaned_input) ==
    isalnum(remove(remove(upper(cleaned_input), "."), "-")) /\ isascii(cleaned_input)

no_key_return(cleaned_input) == <<upper(cleaned_input), cleaned_input>>

\* Mutant: the ticker-format branch keeps the input's case in the company name.
ticker_format_return_keeps_case(cleaned_input) == <<upper(cleaned_input), cleaned_input>>

ticker_format_return(cleaned_input) == <<upper(cleaned_input), upper(cleaned_input)>>

\* Mutant: the fallback forgets to uppercase the ticker.
fallback_return_no_upper(cleaned_input) == <<cleaned_input, cleaned_input>>

fallback_return(cleaned_input) == <<upper(cleaned_input), cleaned_input>>

parse_response(text, cleaned_input) ==
    LET result == strip(text) IN
    IF has_pipe(result)
    THEN LET parts == split_once(result)
             ticker == strip(parts[1])
             company_name == IF Len(parts) > 1 THEN strip(parts[2]) ELSE cleaned_input
         IN  <<ticker, company_name>>
    ELSE <<strip(result), cleaned_input>>

\* The whole of resolve_ticker_with_ai; llm is what the language-model call does
\* if it is made.  calls counts the language-model calls issued.
resolve_ticker_with_ai(user_input, api_key, llm) ==
    LET cleaned_input == strip(user_input) IN
    IF ~Truthy(api_key)
    THEN [ret |-> no_key_return(cleaned_input), calls |-> 0, raised |-> FALSE]
    ELSE IF is_ticker_format(cleaned_input)
    THEN [ret |-> ticker_format_return(cleaned_input), calls |-> 0, raised |-> FALSE]
    ELSE IF llm.kind = "raise"
    THEN [ret |-> fallback_return(cleaned_input), calls |-> 1, raised |-> FALSE]
    ELSE IF llm.kind = "text" /\ llm.text # <<>>
    THEN [ret |-> parse_response(llm.text, cleaned_input), calls |-> 1, raised |-> FALSE]
    ELSE [ret |-> fallback_return(cleaned_input), calls |-> 1, raised |-> FALSE]

\* One invocation: the caller passes its arguments and gets the result back.
Resolve ==
    /\ resolveCall = Idle
    /\ \E user_input \in UserInputs, api_key \in ApiKeys, llm \in LlmOutcomes :
        LET r == resolve_ticker_with_ai(user_input, api_key, llm) IN
        resolveCall' = [op |-> "resolve", user_input |-> user_input,
                           api_key |-> api_key,
                           llm |-> IF r.calls = 0 THEN None ELSE llm,
                           calls |-> r.calls, raised |-> r.raised, ret |-> r.ret]
    /\ UNCHANGED <<newsCall, fetchCall, insightCall, application>>

\* The caller has consumed the result; the function holds no state of its own.
ResolveDone ==
    /\ resolveCall # Idle
    /\ resolveCall' = Idle
    /\ UNCHANGED <<newsCall, fetchCall, insightCall, application>>

Init ==
    /\ resolveCall = Idle
    /\ newsCall = Idle
    /\ fetchCall = Idle
    /\ insightCall = Idle
    /\ env = NoEnv
    /\ session = NewSession
    /\ notion = None
    /\ event = Idle
    /\ written = NewlyWritten

NextResolver == Resolve \/ ResolveDone

SpecResolver == Init /\ [][NextResolver]_vars

\* ------------------------------------------------------------------ claims: resolver

\* The call under examination: a finished invocation of resolve_ticker_with_ai.
Resolved == resolveCall.op = "resolve"

CleanedInput == strip(resolveCall.user_input)

\* The ticker-shape predicate of the claims, on the trimmed input.
TickerShaped == is_ticker_format(CleanedInput)

\* C1 as stated: every ticker-shaped input yields the uppercased trimmed input as
\* both ticker and company name, with no language-model call, whatever the
\* credential.
C1_TickerShapedBothUppercased ==
    (Resolved /\ TickerShaped) =>
        /\ resolveCall.ret = <<upper(CleanedInput), upper(CleanedInput)>>
        /\ resolveCall.calls = 0

\* C1 amended: every ticker-shaped input yields the uppercased trimmed input as
\* ticker with no language-model call, whatever the credential; the company name
\* is the uppercased trimmed input when the credential is present and the trimmed
\* input in its own case when the credential is absent.
C1_TickerShapedByCredential ==
    (Resolved /\ TickerShaped) =>
        /\ resolveCall.ret[1] = upper(CleanedInput)
        /\ resolveCall.ret[2] =
               IF Truthy(resolveCall.api_key) THEN upper(CleanedInput) ELSE CleanedInput
        /\ resolveCall.calls = 0
        /\ ~resolveCall.raised

\* A lower-case ticker with surrounding blanks, resolved without a credential:
\* the ticker is uppercased and the company name is not.
C1_Witness ==
    /\ Resolved /\ TickerShaped
    /\ ~Truthy(resolveCall.api_key)
    /\ resolveCall.ret[1] # resolveCall.ret[2]
    /\ CleanedInput # upper(CleanedInput)
    /\ CleanedInput # resolveCall.user_input

\* The language-model call failed or gave no text.
LlmFailedOrEmpty ==
    \/ resolveCall.llm.kind \in {"raise", "no_response", "no_text"}
    \/ resolveCall.llm.kind = "text" /\ resolveCall.llm.text = <<>>

\* C4: with a credential and an input that is not ticker-shaped, a language-model
\* call that raises or returns an empty or absent text yields
\* (uppercase(trim(input)), trim(input)) and nothing is raised; no invocation
\* issues more than one language-model call.
C4_FallbackOnLlmFailure ==
    Resolved =>
        /\ resolveCall.calls <= 1
        /\ (Truthy(resolveCall.api_key) /\ ~TickerShaped) =>
               /\ resolveCall.calls = 1
               /\ LlmFailedOrEmpty =>
                      /\ resolveCall.ret = <<upper(CleanedInput), CleanedInput>>
                      /\ ~resolveCall.raised

\* The language-model call raised on a mixed-case company name.
C4_Witness ==
    /\ Resolved /\ Truthy(resolveCall.api_key) /\ ~TickerShaped
    /\ resolveCall.llm.kind = "raise"
    /\ CleanedInput # upper(CleanedInput)
    /\ resolveCall.calls = 1

\* C8 as stated: a response holding "|" is split on the first "|" into the
\* trimmed ticker and the trimmed company name, the trimmed input standing in for
\* a missing right part; a response without "|" is the ticker, trimmed, with the
\* trimmed input as company name.
C8_ResponseParsing ==
    (Resolved /\ resolveCall.calls = 1 /\ resolveCall.llm.kind = "text"
              /\ resolveCall.llm.text # <<>>) =>
        LET text == resolveCall.llm.text
            left == strip(SubSeq(text, 1, first_pipe(text) - 1))
            right == strip(SubSeq(text, first_pipe(text) + 1, Len(text)))
        IN  IF has_pipe(text)
            THEN resolveCall.ret =
                     <<left, IF right = <<>> THEN CleanedInput ELSE right>>
            ELSE resolveCall.ret = <<strip(text), CleanedInput>>

\* ------------------------------------------------------------------ news normaliser

\* A value of a raw news item's field: the key is absent, or it holds None, a
\* text, or a nested record.  A nested record is modelled by its `url` entry
\* alone (Absent: the record is empty).
Absent == [kind |-> "absent"]
NoneValue == [kind |-> "none"]
Str(s) == [kind |-> "str", s |-> s]
Dict(u) == [kind |-> "dict", url |-> u]

\* Python truthiness of a field value: None, "" and {} are falsy.
TruthyValue(v) ==
    /\ v.kind # "none"
    /\ ~(v.kind = "str" /\ v.s = "")
    /\ ~(v.kind = "dict" /\ v.url = Absent)

\* dict.get(key, default) on the value held (or not) under key
get(v, default) == IF v = Absent THEN default ELSE v

NoTitle == Str("no title")
Hash == Str("#")
Unknown == Str("Unknown")

LinkValues ==
    {Absent, NoneValue, Str(""), Str("L"),
     Dict(Absent), Dict(Str("U")), Dict(Dict(Str("U")))}
UrlValues == {Absent, Str("U2")}
CanonicalValues == {Absent, Dict(Absent), Dict(Str("C")), NoneValue}

NewsRecord(title, headline, link, url, canonicalUrl, publisher, source) ==
    [kind |-> "dict", title |-> title, headline |-> headline, link |-> link,
     url |-> url, canonicalUrl |-> canonicalUrl, publisher |-> publisher,
     source |-> source]

\* The raw items tried: records that vary the title fields, records that vary
\* the publisher fields, records that vary the link fields, and an entry that is
\* no record.
RawItems ==
    {NewsRecord(t, h, Str("L"), Absent, Absent, Str("P"), Absent) :
        t \in {Absent, Str("T")}, h \in {Absent, Str("H")}}
    \cup {NewsRecord(Str("T"), Absent, Str("L"), Absent, Absent, pb, sr) :
        pb \in {Absent, Str("P")}, sr \in {Absent, Str("S")}}
    \cup {NewsRecord(Str("T"), Absent, l, u, c, Str("P"), Absent) :
        l \in LinkValues, u \in UrlValues, c \in CanonicalValues}
    \cup {[kind |-> "str"]}

\* What the provider's news attribute holds: None, a list of raw items, or a
\* truthy value that cannot be iterated.
RawNews ==
    {[kind |-> "none"], [kind |-> "int"]}
        \cup {[kind |-> "list", items |-> l] : l \in SeqsUpTo(RawItems, MaxNews)}

\* item.get('canonicalUrl', {}).get('url', '#'): Python evaluates the default
\* arguments first, so this runs for every record; .get on a value that is no
\* record raises.
canonical_url(item) ==
    LET c == get(item.canonicalUrl, Dict(Absent)) IN
    IF c.kind # "dict" THEN [raised |-> TRUE]
    ELSE [raised |-> FALSE, v |-> get(c.url, Hash)]

\* if isinstance(link, dict): link = link.get('url', '#')
unnest_link(link) == IF link.kind = "dict" THEN get(link.url, Hash) ELSE link

\* One pass of the loop body: skip (no record), raise, or the normalised item.
normalize_item(item) ==
    IF item.kind # "dict" THEN [status |-> "skip"]
    ELSE LET title == get(item.title, get(item.headline, NoTitle))
             canon == canonical_url(item)
         IN  IF canon.raised THEN [status |-> "raise"]
             ELSE LET link == unnest_link(get(item.link, get(item.url, canon.v)))
                      publisher == get(item.publisher, get(item.source, Unknown))
                  IN  [status |-> "ok",
                       rec |-> [title |-> title,
                                link |-> IF TruthyValue(link) THEN link ELSE Hash,
                                publisher |-> publisher]]

\* Mutant: an exception discards what was normalised so far.
on_exception_discard(normalized) == <<>>

\* except Exception: pass, then return normalized
on_exception(normalized) == normalized

\* for item in raw_news, from item i on.  raised_at is the index of the item the
\* exception was raised on (0: none).
RECURSIVE normalize_loop(_, _, _)
normalize_loop(items, i, normalized) ==
    IF i > Len(items) THEN [ret |-> normalized, raised_at |-> 0]
    ELSE LET r == normalize_item(items[i]) IN
         IF r.status = "raise" THEN [ret |-> on_exception(normalized), raised_at |-> i]
         ELSE IF r.status = "skip" THEN normalize_loop(items, i + 1, normalized)
         ELSE normalize_loop(items, i + 1, Append(normalized, r.rec))

\* The whole of StockProvider._normalize_news.
normalize_news(raw_news) ==
    IF raw_news.kind = "none" \/ (raw_news.kind = "list" /\ raw_news.items = <<>>)
    THEN [ret |-> <<>>, raised_at |-> 0]
    ELSE IF raw_news.kind # "list" THEN [ret |-> on_exception(<<>>), raised_at |-> 1]
    ELSE normalize_loop(raw_news.items, 1, <<>>)

Normalize ==
    /\ newsCall = Idle
    /\ \E raw_news \in RawNews :
        LET r == normalize_news(raw_news) IN
        newsCall' = [op |-> "normalize", raw_news |-> raw_news,
                     ret |-> r.ret, raised_at |-> r.raised_at]
    /\ UNCHANGED <<resolveCall, fetchCall, insightCall, application>>

NormalizeDone ==
    /\ newsCall # Idle
    /\ newsCall' = Idle
    /\ UNCHANGED <<resolveCall, fetchCall, insightCall, application>>

NextNews == Normalize \/ NormalizeDone

SpecNews == Init /\ [][NextNews]_vars

\* ------------------------------------------------------------------ claims: news

Normalized == newsCall.op = "normalize"

\* The raw items before the one the exception was raised on.
ItemsBeforeException ==
    IF newsCall.raw_news.kind = "list"
    THEN SubSeq(newsCall.raw_news.items, 1, newsCall.raised_at - 1)
    ELSE <<>>

C6_LinkIsPlainText ==
    Normalized =>
        \A i \in 1..Len(newsCall.ret) :
            /\ newsCall.ret[i].link.kind = "str"
            /\ newsCall.ret[i].title.kind = "str"
            /\ newsCall.ret[i].publisher.kind = "str"

\* ------------------------------------------------------------------ quote fetcher

Prices == 1..MaxPrice

\* ticker.history(period="1wk"): the request raises (as does a failing
\* yf.Ticker(...)), or yields a frame of daily bars, given by their closes,
\* oldest first; the frame may be empty.
HistoryOutcomes ==
    {[kind |-> "raise"]}
        \cup {[kind |-> "frame", closes |-> c] : c \in SeqsUpTo(Prices, MaxBars)}

\* ticker.fast_info.last_price: raises, or yields a price.
LiveOutcomes == {[kind |-> "raise"]} \cup {[kind |-> "value", v |-> p] : p \in Prices}

\* The raw items the provider's news is drawn from here: a record, a record
\* whose canonicalUrl is None, and an entry that is no record.
FetchItems ==
    {NewsRecord(Str("T"), Absent, Str("L"), Absent, Absent, Str("P"), Absent),
     NewsRecord(Str("T"), Absent, Str("L"), Absent, NoneValue, Str("P"), Absent),
     [kind |-> "str"]}

\* ticker.news: raises, or yields the raw news.
NewsOutcomes ==
    {[kind |-> "raise"], [kind |-> "value", raw |-> [kind |-> "none"]]}
        \cup {[kind |-> "value", raw |-> [kind |-> "list", items |-> l]] :
                l \in SeqsUpTo(FetchItems, MaxNews)}

\* The provider's metadata mapping, by the keys the program reads.
EmptyInfo == [shortName |-> Absent, previousClose |-> Absent]
InfoValues == {EmptyInfo, [shortName |-> Str("Name"), previousClose |-> Absent]}

\* ticker.info: raises, or yields the mapping.
InfoOutcomes == {[kind |-> "raise"]} \cup {[kind |-> "value", info |-> i] : i \in InfoValues}

FetchTickers == {<<"a">>, <<"A">>, <<"a", ".", "A">>}

\* Mutant: the fallback takes the oldest bar's close, iloc[0].
first_close(closes) == closes[1]

\* history['Close'].iloc[-1]
last_close(closes) == closes[Len(closes)]

\* history['Close'].iloc[-1] if not history.empty else 0.0
fallback_price(closes) == IF closes # <<>> THEN last_close(closes) ELSE 0

\* The try/except around ticker.fast_info.last_price.  raised: an exception
\* leaves the block.
fetch_price(live, closes) ==
    [raised |-> FALSE,
     v |-> IF live.kind = "value" THEN live.v ELSE fallback_price(closes)]

\* Mutant: the news lookup is not guarded, its failure leaves the block.
fetch_news_unguarded(news) ==
    IF news.kind = "raise" THEN [raised |-> TRUE]
    ELSE [raised |-> FALSE, v |-> normalize_news(news.raw).ret]

\* The try/except around ticker.news and _normalize_news.
fetch_news(news) ==
    [raised |-> FALSE,
     v |-> IF news.kind = "raise" THEN <<>> ELSE normalize_news(news.raw).ret]

\* The try/except around ticker.info.
fetch_info(info) ==
    [raised |-> FALSE, v |-> IF info.kind = "raise" THEN EmptyInfo ELSE info.info]

\* history.empty
history_empty(history) == history.closes = <<>>

\* The whole of StockProvider.get_stock_data: any exception that leaves the
\* outer try block makes it return None.
get_stock_data(ticker_symbol, history, live, news, info) ==
    IF history.kind = "raise" THEN None
    ELSE IF history_empty(history) THEN None
    ELSE LET price == fetch_price(live, history.closes)
             nws == fetch_news(news)
             inf == fetch_info(info)
         IN  IF price.raised \/ nws.raised \/ inf.raised THEN None
             ELSE [kind |-> "bundle",
                   ticker |-> upper(ticker_symbol),
                   current_price |-> price.v,
                   history |-> history.closes,
                   news |-> nws.v,
                   info |-> inf.v]

\* The lookups after the history are made only when the history is usable.
Fetch ==
    /\ fetchCall = Idle
    /\ \E ticker_symbol \in FetchTickers, history \in HistoryOutcomes :
        IF history.kind = "raise" \/ history_empty(history)
        THEN fetchCall' = [op |-> "fetch", ticker_symbol |-> ticker_symbol,
                           history |-> history, live |-> None, news |-> None,
                           info |-> None,
                           ret |-> get_stock_data(ticker_symbol, history, None, None, None)]
        ELSE \E live \in LiveOutcomes, news \in NewsOutcomes, info \in InfoOutcomes :
                fetchCall' = [op |-> "fetch", ticker_symbol |-> ticker_symbol,
                              history |-> history, live |-> live, news |-> news,
                              info |-> info,
                              ret |-> get_stock_data(ticker_symbol, history, live, news, info)]
    /\ UNCHANGED <<resolveCall, newsCall, insightCall, application>>

FetchDone ==
    /\ fetchCall # Idle
    /\ fetchCall' = Idle
    /\ UNCHANGED <<resolveCall, newsCall, insightCall, application>>

NextFetch == Fetch \/ FetchDone

SpecFetch == Init /\ [][NextFetch]_vars

\* ------------------------------------------------------------------ claims: fetcher

Fetched == fetchCall.op = "fetch"

\* The one-week price history came back and is empty.
HistoryIsEmpty == fetchCall.history.kind = "frame" /\ fetchCall.history.closes = <<>>

\* A failed live-price, news or metadata lookup leaves the bundle with the
\* fallback price, news = [] or info = {}.
SubFetchesDegrade ==
    fetchCall.ret # None =>
        /\ fetchCall.live.kind = "raise" =>
               fetchCall.ret.current_price =
                   fetchCall.history.closes[Len(fetchCall.history.closes)]
        /\ fetchCall.news.kind = "raise" => fetchCall.ret.news = <<>>
        /\ fetchCall.info.kind = "raise" => fetchCall.ret.info = EmptyInfo

\* C2 as stated: the fetch returns null if and only if the one-week history is
\* empty; failed live-price, news and metadata lookups degrade.
C2_NullIffHistoryEmpty ==
    Fetched =>
        /\ (fetchCall.ret = None) <=> HistoryIsEmpty
        /\ SubFetchesDegrade

\* C2 amended: the fetch returns null if and only if the one-week history is
\* empty or the history request itself raises; a failure of the live-price, the
\* news or the metadata lookup never makes it return null and leaves the bundle
\* with the fallback price, news = [] or info = {}.
C2_NullIffNoHistory ==
    Fetched =>
        /\ (fetchCall.ret = None) <=> (HistoryIsEmpty \/ fetchCall.history.kind = "raise")
        /\ SubFetchesDegrade

\* All three enrichment lookups fail and the bundle is still returned.
C2_Witness ==
    /\ Fetched
    /\ fetchCall.live.kind = "raise"
    /\ fetchCall.news.kind = "raise"
    /\ fetchCall.info.kind = "raise"
    /\ fetchCall.ret # None
    /\ fetchCall.ret.news = <<>>
    /\ fetchCall.ret.info = EmptyInfo

\* C5: a returned bundle's current_price is the live price when the live lookup
\* succeeds, otherwise the close of the most recent bar, and 0 when there is
\* neither; it is always a number.
C5_CurrentPrice ==
    (Fetched /\ fetchCall.ret # None) =>
        /\ fetchCall.ret.current_price =
               IF fetchCall.live.kind = "value" THEN fetchCall.live.v
               ELSE IF fetchCall.history.closes # <<>>
                    THEN fetchCall.history.closes[Len(fetchCall.history.closes)]
                    ELSE 0
        /\ fetchCall.ret.current_price \in Nat

\* The live lookup failed and the price is the newest of two different closes.
C5_Witness ==
    /\ Fetched /\ fetchCall.ret # None
    /\ fetchCall.live.kind = "raise"
    /\ Len(fetchCall.history.closes) >= 2
    /\ fetchCall.history.closes[1] # fetchCall.history.closes[Len(fetchCall.history.closes)]
    /\ fetchCall.ret.current_price = fetchCall.history.closes[Len(fetchCall.history.closes)]

\* ------------------------------------------------------------------ insight generator

\* An error detail is a sequence of words; a keyword is in the detail when one
\* of its words, upper-cased (or lower-cased), is the keyword.
ErrWords ==
    {"API_KEY", "api_key", "Invalid", "quota", "LIMIT", "Permission",
     "NOT_FOUND", "not_found", "Not Found", "timeout"}

\* str.upper on a word of the error detail
upper_word(w) ==
    CASE w = "api_key" -> "API_KEY"
      [] w = "Invalid" -> "INVALID"
      [] w = "quota" -> "QUOTA"
      [] w = "Permission" -> "PERMISSION"
      [] w = "not_found" -> "NOT_FOUND"
      [] w = "Not Found" -> "NOT FOUND"
      [] w = "timeout" -> "TIMEOUT"
      [] OTHER -> w

\* str.lower on a word of the error detail
lower_word(w) ==
    CASE w = "API_KEY" -> "api_key"
      [] w = "Invalid" -> "invalid"
      [] w = "LIMIT" -> "limit"
      [] w = "Permission" -> "permission"
      [] w = "NOT_FOUND" -> "not_found"
      [] w = "Not Found" -> "not found"
      [] OTHER -> w

\* keyword in error_msg.upper()
in_upper(keyword, error_msg) == \E i \in 1..Len(error_msg) : upper_word(error_msg[i]) = keyword

\* keyword in error_msg.lower()
in_lower(keyword, error_msg) == \E i \in 1..Len(error_msg) : lower_word(error_msg[i]) = keyword

ErrorMessages == SeqsUpTo(ErrWords, MaxErrWords)

\* The texts a successful completion may carry.
InsightTexts == SeqsUpTo({"a", " "}, 2)

\* client.models.generate_content for the insight prompt.
InsightLlmOutcomes ==
    {[kind |-> "no_response"], [kind |-> "no_text"]}
        \cup {[kind |-> "text", text |-> t] : t \in InsightTexts}
        \cup {[kind |-> "raise", error_msg |-> m] : m \in ErrorMessages}

MaxHeadlines == 5

NewsItem(title) == [title |-> Str(title), link |-> Str("L"), publisher |-> Str("P")]

\* The news lists of the bundles tried: none, one item, an item without a
\* title text, and one item more than the digest takes.
InsightNews ==
    {<<>>,
     <<NewsItem("T1")>>,
     <<NewsItem(""), NewsItem("T2")>>,
     <<NewsItem("T1"), NewsItem("T2"), NewsItem("T3"), NewsItem("T4"),
       NewsItem("T5"), NewsItem("T6")>>}

InsightBundles ==
    {[kind |-> "bundle", ticker |-> <<"A">>, current_price |-> p,
      history |-> <<p>>, news |-> n, info |-> EmptyInfo] :
        p \in Prices, n \in InsightNews}

\* The titles of news[:5] that are not empty.
headlines(news) ==
    LET first == SubSeq(news, 1, IF Len(news) < MaxHeadlines THEN Len(news) ELSE MaxHeadlines)
        titles == [i \in 1..Len(first) |-> first[i].title]
    IN  SelectSeq(titles, TruthyValue)

\* "; ".join(headlines) if headlines else "No recent news available"
news_summary(news) ==
    IF headlines(news) # <<>> THEN headlines(news) ELSE <<Str("No recent news available")>>

\* Mutant: the quota rule is tried before the credential rule.
classify_error_quota_first(error_msg) ==
    IF in_upper("QUOTA", error_msg) \/ in_upper("LIMIT", error_msg)
    THEN [kind |-> "rate_limit"]
    ELSE IF in_upper("API_KEY", error_msg) \/ in_upper("INVALID", error_msg)
    THEN [kind |-> "invalid_api_key"]
    ELSE IF in_upper("PERMISSION", error_msg)
    THEN [kind |-> "access_denied"]
    ELSE IF in_upper("NOT_FOUND", error_msg) \/ in_lower("not found", error_msg)
    THEN [kind |-> "model_not_found"]
    ELSE [kind |-> "generic_error", detail |-> error_msg]

\* The except branch: the message for an error detail.
classify_error(error_msg) ==
    IF in_upper("API_KEY", error_msg) \/ in_upper("INVALID", error_msg)
    THEN [kind |-> "invalid_api_key"]
    ELSE IF in_upper("QUOTA", error_msg) \/ in_upper("LIMIT", error_msg)
    THEN [kind |-> "rate_limit"]
    ELSE IF in_upper("PERMISSION", error_msg)
    THEN [kind |-> "access_denied"]
    ELSE IF in_upper("NOT_FOUND", error_msg) \/ in_lower("not found", error_msg)
    THEN [kind |-> "model_not_found"]
    ELSE [kind |-> "generic_error", detail |-> error_msg]

\* The whole of generate_insight; llm is what the language-model call does if
\* it is made.  The returned text is given by its kind and what it embeds.
generate_insight(stock_data, api_key, llm) ==
    IF ~Truthy(api_key)
    THEN [ret |-> [kind |-> "mock", ticker |-> stock_data.ticker,
                   price |-> stock_data.current_price,
                   news_summary |-> news_summary(stock_data.news)],
          calls |-> 0, raised |-> FALSE]
    ELSE IF llm.kind = "raise"
    THEN [ret |-> classify_error(llm.error_msg), calls |-> 1, raised |-> FALSE]
    ELSE IF llm.kind = "text" /\ llm.text # <<>>
    THEN [ret |-> [kind |-> "text", text |-> strip(llm.text)], calls |-> 1, raised |-> FALSE]
    ELSE [ret |-> [kind |-> "empty_response"], calls |-> 1, raised |-> FALSE]

Insight ==
    /\ insightCall = Idle
    /\ \E stock_data \in InsightBundles, api_key \in ApiKeys, llm \in InsightLlmOutcomes :
        LET r == generate_insight(stock_data, api_key, llm) IN
        insightCall' = [op |-> "insight", stock_data |-> stock_data, api_key |-> api_key,
                        llm |-> IF r.calls = 0 THEN None ELSE llm,
                        calls |-> r.calls, raised |-> r.raised, ret |-> r.ret]
    /\ UNCHANGED <<resolveCall, newsCall, fetchCall, application>>

InsightDone ==
    /\ insightCall # Idle
    /\ insightCall' = Idle
    /\ UNCHANGED <<resolveCall, newsCall, fetchCall, application>>

NextInsight == Insight \/ InsightDone

SpecInsight == Init /\ [][NextInsight]_vars

\* ------------------------------------------------------------------ claims: insight

InsightReturned == insightCall.op = "insight"

\* The claim's categories, on the error detail with its case folded.
FoldedDetail ==
    [i \in 1..Len(insightCall.llm.error_msg) |-> lower_word(insightCall.llm.error_msg[i])]

Mentions(words) == \E i \in 1..Len(FoldedDetail) : FoldedDetail[i] \in words

\* The rule table, highest priority first: <<the rule's words, its message>>.
ErrorRules ==
    <<[words |-> {"api_key", "invalid"}, message |-> "invalid_api_key"],
      [words |-> {"quota", "limit"}, message |-> "rate_limit"],
      [words |-> {"permission"}, message |-> "access_denied"],
      [words |-> {"not_found", "not found"}, message |-> "model_not_found"]>>

MatchingRules == {i \in 1..Len(ErrorRules) : Mentions(ErrorRules[i].words)}

InsightKinds ==
    {"mock", "text", "empty_response", "invalid_api_key", "rate_limit",
     "access_denied", "model_not_found", "generic_error"}

\* C7: when the language-model call fails, the message returned is that of the
\* first rule, in the fixed priority order credential, quota/limit, permission,
\* not-found, that matches the error text without regard to case, and the
\* generic message with the raw detail when none matches; generate_insight
\* always returns a text and never raises.
C7_ErrorPriority ==
    InsightReturned =>
        /\ ~insightCall.raised
        /\ insightCall.ret.kind \in InsightKinds
        /\ insightCall.llm.kind = "raise" =>
               IF MatchingRules = {}
               THEN insightCall.ret =
                        [kind |-> "generic_error", detail |-> insightCall.llm.error_msg]
               ELSE \E i \in MatchingRules :
                        /\ \A j \in MatchingRules : i <= j
                        /\ insightCall.ret.kind = ErrorRules[i].message

\* An error text that names a quota and a credential gets the credential message.
C7_Witness ==
    /\ InsightReturned
    /\ insightCall.llm.kind = "raise"
    /\ Mentions({"quota", "limit"})
    /\ Mentions({"api_key", "invalid"})
    /\ insightCall.ret.kind = "invalid_api_key"

\* ------------------------------------------------------------------ record publisher

SummaryLimit == 2000

\* A value of an environment variable or of a credential argument: unset, set
\* to the empty text, or set.
ConfigValues == {NoneText, <<>>, <<"k">>}

\* A summary text, by what it is made of and its length in characters.
Summary(text, len) == [text |-> text, len |-> len]

\* summary[:2000]
truncate(summary) ==
    [text |-> summary.text,
     len |-> IF summary.len > SummaryLimit THEN SummaryLimit ELSE summary.len]

SummaryLengths == {0, 2000, 2500}

\* client.pages.create: the record is created, or the request fails.
CreateOutcomes == {[kind |-> "created"], [kind |-> "raise"]}

\* Mutant: a publisher is refused only when both values are missing.
NotionManager_init_needs_either(token, database_id) ==
    IF ~Truthy(token) /\ ~Truthy(database_id)
    THEN [raised |-> TRUE]
    ELSE [raised |-> FALSE, obj |-> [token |-> token, database_id |-> database_id]]

\* NotionManager.__init__: a ValueError unless both values are given.
NotionManager_init(token, database_id) ==
    IF ~Truthy(token) \/ ~Truthy(database_id)
    THEN [raised |-> TRUE]
    ELSE [raised |-> FALSE, obj |-> [token |-> token, database_id |-> database_id]]

\* The record-creation request add_stock_record builds, with the credential
\* the client sends it under.
create_request(self, ticker, price, summary, date, status) ==
    [token |-> self.token,
     database_id |-> self.database_id,
     Ticker |-> ticker,
     Price |-> price,
     Date |-> IF date = NoneText THEN <<"now">> ELSE date,
     AI_Summary |-> truncate(summary),
     Status |-> status]

\* Mutant: a failed request is not caught.
add_stock_record_unguarded(self, ticker, price, summary, date, status, outcome) ==
    LET request == create_request(self, ticker, price, summary, date, status) IN
    IF outcome.kind = "created"
    THEN [ret |-> [kind |-> "page", request |-> request], request |-> request,
          requests |-> 1, raised |-> FALSE]
    ELSE [ret |-> None, request |-> request, requests |-> 1, raised |-> TRUE]

\* The whole of NotionManager.add_stock_record; outcome is what
\* client.pages.create does.
add_stock_record(self, ticker, price, summary, date, status, outcome) ==
    LET request == create_request(self, ticker, price, summary, date, status) IN
    IF outcome.kind = "created"
    THEN [ret |-> [kind |-> "page", request |-> request], request |-> request,
          requests |-> 1, raised |-> FALSE]
    ELSE [ret |-> None, request |-> request, requests |-> 1, raised |-> FALSE]

\* A caller constructs a publisher; a refused construction leaves none behind.
Construct ==
    \E token \in ConfigValues, database_id \in ConfigValues :
        LET r == NotionManager_init(token, database_id) IN
        /\ notion' = IF r.raised THEN notion ELSE r.obj
        /\ event' = [op |-> "construct", token |-> token, database_id |-> database_id,
                     raised |-> r.raised]
        /\ UNCHANGED <<components, env, session, written>>

\* A caller publishes a record through the publisher it holds.
AddRecord ==
    /\ notion # None
    /\ \E ticker \in FetchTickers, price \in Prices, len \in SummaryLengths,
          date \in {NoneText, <<"d">>}, status \in {"Analyzed", "Watching"},
          outcome \in CreateOutcomes :
        LET r == add_stock_record(notion, ticker, price, Summary("s", len), date,
                                  status, outcome)
        IN  event' = [op |-> "add_stock_record", outcome |-> outcome,
                      summary_len |-> len, request |-> r.request,
                      requests |-> r.requests, ret |-> r.ret, raised |-> r.raised]
    /\ UNCHANGED <<components, env, session, notion, written>>

NextNotion == Construct \/ AddRecord

SpecNotion == Init /\ [][NextNotion]_vars

\* ------------------------------------------------------------------ orchestration

\* The configuration main() may start under.
Envs ==
    [NOTION_TOKEN : ConfigValues, NOTION_DB_ID : ConfigValues,
     GOOGLE_API_KEY : {NoneText, <<"k">>}]

\* What the user types and what the services answer during a session.
AppInputs == {<<"a">>, <<"ko">>}
AppResolveOutcomes == {[kind |-> "raise"], [kind |-> "text", text |-> <<"a", "|", "A">>]}
AppHistoryOutcomes ==
    {[kind |-> "raise"], [kind |-> "frame", closes |-> <<>>],
     [kind |-> "frame", closes |-> <<1, 2>>]}
AppLiveOutcomes == {[kind |-> "raise"], [kind |-> "value", v |-> 1]}
AppNewsOutcomes ==
    {[kind |-> "raise"],
     [kind |-> "value",
      raw |-> [kind |-> "list",
               items |-> <<NewsRecord(Str("Error at the plant"), Absent, Str("L"),
                                      Absent, Absent, Str("P"), Absent)>>]]}
AppInfoOutcomes == {[kind |-> "raise"], [kind |-> "value", info |-> EmptyInfo]}
AppInsightOutcomes ==
    {[kind |-> "raise", error_msg |-> <<"quota">>], [kind |-> "no_text"],
     [kind |-> "text", text |-> <<"a">>]}
Notes == {<<>>, <<"n">>}

\* "Error" in insight: the fixed messages that start with "Error", and a mock
\* insight whose news digest holds the word.
has_error_word(insight) ==
    \/ insight.kind \in {"invalid_api_key", "rate_limit", "access_denied",
                         "model_not_found", "generic_error"}
    \/ /\ insight.kind = "mock"
       /\ \E i \in 1..Len(insight.news_summary) :
              insight.news_summary[i] = Str("Error at the plant")

\* The insight the submit handler stores for a fetched bundle.
stored_insight(data, llm) ==
    LET r == generate_insight(data, env.GOOGLE_API_KEY, llm) IN
    IF r.raised THEN [kind |-> "transient_error"]
    ELSE IF has_error_word(r.ret) /\ ~Truthy(env.GOOGLE_API_KEY)
    THEN [kind |-> "no_api_key"]
    ELSE r.ret

\* Mutant: a failed fetch leaves the bundle of the previous submit in place.
submitted_keeps_bundle(ticker_input, resolved, data, llm2) ==
    IF data # None
    THEN [stock_data |-> data,
          ai_insight |-> stored_insight(data, llm2),
          resolved_info |-> <<resolved[1], resolved[2], ticker_input>>]
    ELSE [stock_data |-> session.stock_data,
          ai_insight |-> session.ai_insight,
          resolved_info |-> <<resolved[1], resolved[2], ticker_input>>]

\* The session after the handler, given what the resolver returned and what
\* the fetch returned; llm2 is what the insight's language-model call does.
submitted(ticker_input, resolved, data, llm2) ==
    IF data # None
    THEN [stock_data |-> data,
          ai_insight |-> stored_insight(data, llm2),
          resolved_info |-> <<resolved[1], resolved[2], ticker_input>>]
    ELSE [stock_data |-> None,
          ai_insight |-> session.ai_insight,
          resolved_info |-> <<resolved[1], resolved[2], ticker_input>>]

\* The session fields the handler assigns: resolved_info and stock_data on
\* every path, ai_insight only after a fetch that returned a bundle.
assigned(data) ==
    {"resolved_info", "stock_data"} \cup (IF data # None THEN {"ai_insight"} ELSE {})

\* The submits since each field was last assigned, after this one (counted up
\* to MaxAge).
aged(data) ==
    [f \in {"stock_data", "ai_insight", "resolved_info"} |->
        IF f \in assigned(data) THEN 0
        ELSE IF written[f] < MaxAge THEN written[f] + 1 ELSE MaxAge]

\* The form-submission handler: resolve, fetch, generate, store in the session.
\* An empty input does nothing and is left out.  A service's answer is drawn
\* only where the handler asks for it.
Submit ==
    \E ticker_input \in AppInputs, history \in AppHistoryOutcomes :
    \E llm \in IF resolve_ticker_with_ai(ticker_input, env.GOOGLE_API_KEY,
                                         [kind |-> "raise"]).calls = 0
               THEN {None} ELSE AppResolveOutcomes :
        LET resolved == resolve_ticker_with_ai(ticker_input, env.GOOGLE_API_KEY, llm).ret
            target_ticker == resolved[1]
            fatal == history.kind = "raise" \/ history_empty(history)
        IN  /\ \E live \in IF fatal THEN {None} ELSE AppLiveOutcomes,
                  news \in IF fatal THEN {None} ELSE AppNewsOutcomes,
                  info \in IF fatal THEN {None} ELSE AppInfoOutcomes,
                  llm2 \in IF fatal \/ ~Truthy(env.GOOGLE_API_KEY)
                           THEN {None} ELSE AppInsightOutcomes :
                    LET data == get_stock_data(target_ticker, history, live, news, info)
                    IN  /\ session' = submitted(ticker_input, resolved, data, llm2)
                        /\ written' = aged(data)
            /\ event' = [op |-> "submit", ticker_input |-> ticker_input,
                         toast |-> target_ticker # upper(ticker_input),
                         found |-> ~fatal]
            /\ UNCHANGED <<components, env, notion>>

\* final_summary = ai_insight or "", plus the user's note when there is one
final_summary(ai_insight, save_note, len) ==
    Summary(<<ai_insight, save_note>>, len)

\* The save handler, shown only while the session holds a bundle.  len is the
\* length of the summary text.
Save ==
    /\ session.stock_data # None
    /\ \E save_note \in Notes, len \in SummaryLengths, outcome \in CreateOutcomes :
        IF ~Truthy(env.NOTION_TOKEN) \/ ~Truthy(env.NOTION_DB_ID)
        THEN event' = [op |-> "save", message |-> "config_missing",
                       constructed |-> FALSE, add |-> None]
        ELSE LET made == NotionManager_init(env.NOTION_TOKEN, env.NOTION_DB_ID) IN
             IF made.raised
             THEN event' = [op |-> "save", message |-> "error",
                            constructed |-> TRUE, add |-> None]
             ELSE LET r == add_stock_record(made.obj, session.stock_data.ticker,
                                            session.stock_data.current_price,
                                            final_summary(session.ai_insight, save_note, len),
                                            NoneText, "Analyzed", outcome)
                  IN  event' = [op |-> "save",
                                message |-> IF r.raised THEN "error"
                                            ELSE IF r.ret # None THEN "saved"
                                            ELSE "save_failed",
                                constructed |-> TRUE,
                                add |-> [outcome |-> outcome, summary_len |-> len,
                                         request |-> r.request, requests |-> r.requests,
                                         ret |-> r.ret, raised |-> r.raised]]
    /\ UNCHANGED <<components, env, session, notion, written>>

InitApp ==
    /\ resolveCall = Idle
    /\ newsCall = Idle
    /\ fetchCall = Idle
    /\ insightCall = Idle
    /\ env \in Envs
    /\ session = NewSession
    /\ notion = None
    /\ event = Idle
    /\ written = NewlyWritten

Next == Submit \/ Save \/ Construct

Spec == InitApp /\ [][Next]_vars

\* ------------------------------------------------------------------ claims: publisher

\* The record-creation request the last operation issued (None: it issued none).
IssuedRequest ==
    IF event.op = "add_stock_record" THEN event.request
    ELSE IF event.op = "save" /\ event.add # None THEN event.add.request
    ELSE None

ConfigMissing == ~Truthy(env.NOTION_TOKEN) \/ ~Truthy(env.NOTION_DB_ID)

\* C9: no record-creation request is issued while the token or the database
\* identifier is absent: a NotionManager constructed without both raises at
\* once, so no publisher without both ever exists, and the save action under a
\* missing configuration reports it without constructing the publisher or
\* attempting the call.
C9_NoRequestWithoutConfig ==
    /\ IssuedRequest # None =>
           Truthy(IssuedRequest.token) /\ Truthy(IssuedRequest.database_id)
    /\ notion # None => Truthy(notion.token) /\ Truthy(notion.database_id)
    /\ event.op = "construct" =>
           (event.raised <=> (~Truthy(event.token) \/ ~Truthy(event.database_id)))
    /\ (event.op = "save" /\ ConfigMissing) =>
           /\ event.message = "config_missing"
           /\ ~event.constructed
           /\ event.add = None

\* The save action under a token without a database identifier.
C9_Witness ==
    /\ event.op = "save"
    /\ Truthy(env.NOTION_TOKEN)
    /\ ~Truthy(env.NOTION_DB_ID)
    /\ event.message = "config_missing"
    /\ session.stock_data # None

\* C10: add_stock_record never raises: it submits one record-creation request
\* and returns the created record when the request succeeds and null when it
\* fails.
C10_AddNeverRaises ==
    event.op = "add_stock_record" =>
        /\ ~event.raised
        /\ event.requests = 1
        /\ event.outcome.kind = "created" =>
               event.ret = [kind |-> "page", request |-> event.request]
        /\ event.outcome.kind = "raise" => event.ret = None

\* The request for a 2500-character summary failed and null came back.
C10_Witness ==
    /\ event.op = "add_stock_record"
    /\ event.outcome.kind = "raise"
    /\ event.ret = None
    /\ event.summary_len > SummaryLimit
    /\ event.request.AI_Summary.len = SummaryLimit

\* ------------------------------------------------------------------ claims: session

\* The session holds a bundle: it is what the page shows and what a save sends.
HoldsBundle == session.stock_data # None

\* C11: whenever the session's stock_data is non-null, its ai_insight and its
\* resolved_info were assigned by the submit that assigned that stock_data, the
\* bundle's ticker is the uppercased resolved ticker and a mock insight is about
\* that bundle; a submit whose fetch fails leaves stock_data null; and a save
\* sends the bundle's ticker and price with the insight held beside it.
C11_SessionFromOneSubmit ==
    /\ HoldsBundle =>
           /\ written.stock_data < MaxAge
           /\ written.ai_insight = written.stock_data
           /\ written.resolved_info = written.stock_data
           /\ session.ai_insight # None
           /\ session.resolved_info # None
           /\ session.stock_data.ticker = upper(session.resolved_info[1])
           /\ session.ai_insight.kind = "mock" =>
                  /\ session.ai_insight.ticker = session.stock_data.ticker
                  /\ session.ai_insight.price = session.stock_data.current_price
    /\ (event.op = "submit" /\ ~event.found) => ~HoldsBundle
    /\ (event.op = "submit" /\ event.found) => HoldsBundle
    /\ (event.op = "save" /\ event.add # None) =>
           /\ event.add.request.Ticker = session.stock_data.ticker
           /\ event.add.request.Price = session.stock_data.current_price
           /\ event.add.request.AI_Summary.text[1] = session.ai_insight

\* A bundle for a ticker the language model resolved from a company name, saved
\* with its insight.
C11_Witness ==
    /\ HoldsBundle
    /\ event.op = "save" /\ event.add # None
    /\ session.resolved_info[3] = <<"ko">>
    /\ session.stock_data.ticker = <<"A">>
    /\ session.ai_insight.kind = "text"

\* A failed submit after a successful one: the old insight is still held, and
\* no bundle with it.
C11_StaleInsightHidden ==
    /\ event.op = "submit" /\ ~event.found
    /\ ~HoldsBundle
    /\ session.ai_insight # None
    /\ written.ai_insight > 0

====
